---- MODULE Spec2Model ----
(***************************************************************************)
(* Model of scripts/convert-pythia.py: a straight-line script that loads   *)
(* an image, computes a float64 luminance per pixel, thresholds it into a  *)
(* line mask, builds a white RGBA image whose alpha is the scaled darkness *)
(* of the line pixels, saves it, crops a centred square and saves that.    *)
(*                                                                         *)
(* The arithmetic of lines 10, 13 and 21 is IEEE-754 binary64.  It is      *)
(* modelled exactly: a float is a natural number of units of 2^-56 (or of  *)
(* 2^-108 after the multiplication by 1.8), held as a little-endian        *)
(* sequence of 15-bit limbs, and every operation rounds its exact result   *)
(* to 53 significant bits, ties to even.                                   *)
(***************************************************************************)
EXTENDS Integers, Sequences, FiniteSets, TLC

(***************************************************************************)
(* Bounds of the model.                                                    *)
(***************************************************************************)
MaxDim == 3
MaxRuns == 2

(***************************************************************************)
(* Multi-limb naturals (the carrier of the binary64 significands).         *)
(***************************************************************************)
LimbBits == 15
Base == 32768

RECURSIVE Pow2(_)
Pow2(k) == IF k = 0 THEN 1 ELSE 2 * Pow2(k - 1)

RECURSIVE Norm(_)
Norm(s) == IF s = <<>> THEN s
           ELSE IF s[Len(s)] = 0 THEN Norm(SubSeq(s, 1, Len(s) - 1)) ELSE s

RECURSIVE BigOfNat(_)
BigOfNat(n) == IF n = 0 THEN <<>> ELSE <<n % Base>> \o BigOfNat(n \div Base)

RECURSIVE NatOfBig(_)
NatOfBig(a) == IF a = <<>> THEN 0 ELSE Head(a) + Base * NatOfBig(Tail(a))

Limb(a, i) == IF i <= Len(a) THEN a[i] ELSE 0

RECURSIVE AddC(_, _, _, _)
AddC(a, b, i, c) ==
    IF i > Len(a) /\ i > Len(b)
    THEN (IF c = 0 THEN <<>> ELSE <<c>>)
    ELSE LET t == Limb(a, i) + Limb(b, i) + c
         IN  <<t % Base>> \o AddC(a, b, i + 1, t \div Base)

BigAdd(a, b) == Norm(AddC(a, b, 1, 0))

\* a - b for a >= b
RECURSIVE SubC(_, _, _, _)
SubC(a, b, i, c) ==
    IF i > Len(a)
    THEN <<>>
    ELSE LET t == Limb(a, i) - Limb(b, i) - c
         IN  IF t < 0 THEN <<t + Base>> \o SubC(a, b, i + 1, 1)
                      ELSE <<t>> \o SubC(a, b, i + 1, 0)

BigSub(a, b) == Norm(SubC(a, b, 1, 0))

\* a * k for 0 <= k <= Base
RECURSIVE MulC(_, _, _, _)
MulC(a, k, i, c) ==
    IF i > Len(a)
    THEN (IF c = 0 THEN <<>> ELSE <<c % Base>> \o (IF c \div Base = 0 THEN <<>> ELSE <<c \div Base>>))
    ELSE LET t == a[i] * k + c
         IN  <<t % Base>> \o MulC(a, k, i + 1, t \div Base)

BigMulSmall(a, k) == Norm(MulC(a, k, 1, 0))

RECURSIVE BigMulFrom(_, _, _)
BigMulFrom(a, b, j) ==
    IF j > Len(b) THEN <<>>
    ELSE BigAdd(BigMulSmall(a, b[j]),
                LET r == BigMulFrom(a, b, j + 1)
                IN  IF r = <<>> THEN <<>> ELSE <<0>> \o r)

BigMul(a, b) == BigMulFrom(a, b, 1)

\* -1, 0, 1 as a < b, a = b, a > b (both normalised)
RECURSIVE CmpFrom(_, _, _)
CmpFrom(a, b, i) ==
    IF i = 0 THEN 0
    ELSE IF a[i] < b[i] THEN -1
    ELSE IF a[i] > b[i] THEN 1
    ELSE CmpFrom(a, b, i - 1)

BigCmp(a, b) ==
    IF Len(a) < Len(b) THEN -1
    ELSE IF Len(a) > Len(b) THEN 1
    ELSE CmpFrom(a, b, Len(a))

\* long division by 1 <= k <= Base: <<quotient limbs (high first dropped), remainder>>
RECURSIVE DivC(_, _, _, _)
DivC(a, k, i, r) ==
    IF i = 0 THEN [q |-> <<>>, r |-> r]
    ELSE LET t == r * Base + a[i]
             rest == DivC(a, k, i - 1, t % k)
         IN  [q |-> rest.q \o <<t \div k>>, r |-> rest.r]

BigDivSmall(a, k) == LET d == DivC(a, k, Len(a), 0) IN [q |-> Norm(d.q), r |-> d.r]

RECURSIVE BitLenNat(_)
BitLenNat(n) == IF n = 0 THEN 0 ELSE 1 + BitLenNat(n \div 2)

BitLen(a) == IF a = <<>> THEN 0 ELSE LimbBits * (Len(a) - 1) + BitLenNat(a[Len(a)])

Zeros(n) == [i \in 1..n |-> 0]

\* a * 2^k
BigShl(a, k) ==
    IF a = <<>> THEN <<>>
    ELSE Zeros(k \div LimbBits) \o BigMulSmall(a, Pow2(k % LimbBits))

\* floor(a / 2^k)
BigShr(a, k) ==
    IF k \div LimbBits >= Len(a) THEN <<>>
    ELSE BigDivSmall(SubSeq(a, (k \div LimbBits) + 1, Len(a)), Pow2(k % LimbBits)).q

BigOdd(a) == a # <<>> /\ a[1] % 2 = 1

(***************************************************************************)
(* IEEE-754 binary64, round to nearest, ties to even.  Luminance-stage     *)
(* values are naturals counting units of 2^-LumScale; the product by 1.8   *)
(* counts units of 2^-ProdScale.                                           *)
(***************************************************************************)
Precision == 53
LumScale == 56
OneEightScale == 52
ProdScale == 108
GuardBits == 16

Round53(n) ==
    LET len == BitLen(n)
    IN  IF len <= Precision THEN n
        ELSE LET k == len - Precision
                 q == BigShr(n, k)
                 rem == BigSub(n, BigShl(q, k))
                 half == BigShl(<<1>>, k - 1)
                 c == BigCmp(rem, half)
                 up == c = 1 \/ (c = 0 /\ BigOdd(q))
             IN  BigShl(IF up THEN BigAdd(q, <<1>>) ELSE q, k)

\* the binary64 nearest to the decimal literal num/den, in units of 2^-scale
FloatLiteral(num, den, scale) ==
    LET d == BigDivSmall(BigShl(BigOfNat(num), scale + GuardBits), den)
        sticky == IF d.r = 0 THEN <<>> ELSE <<1>>
        n == BigAdd(BigMulSmall(d.q, 2), sticky)
    IN  BigShr(Round53(n), GuardBits + 1)

\* an integer converted to binary64 (exact for the 8-bit and 9-bit values here)
FloatOfInt(k, scale) == BigShl(BigOfNat(k), scale)

W_R == FloatLiteral(299, 1000, LumScale)
W_G == FloatLiteral(587, 1000, LumScale)
W_B == FloatLiteral(114, 1000, LumScale)
\* variant: the multiplier of line 21 mistyped as 1.7
OneEight_Lower == FloatLiteral(17, 10, OneEightScale)
OneEight == FloatLiteral(18, 10, OneEightScale)
Threshold == 180
White == 255

\* float * uint8 element, and float + float (line 10)
FMulInt(c, k) == Round53(BigMulSmall(c, k))
FAdd(x, y) == Round53(BigAdd(x, y))

\* line 10, one element: 0.299 * r + 0.587 * g + 0.114 * b in binary64
PixelLuminance(r, g, b) ==
    FAdd(FAdd(FMulInt(W_R, r), FMulInt(W_G, g)), FMulInt(W_B, b))

\* variant: the threshold of line 13 taken as <= 180
IsLine_NonStrict(lum) == BigCmp(lum, FloatOfInt(Threshold, LumScale)) # 1

\* line 13, one element: luminance < 180
IsLine(lum) == BigCmp(lum, FloatOfInt(Threshold, LumScale)) = -1

\* variant: the alpha of line 21 rounded to nearest (0.5 added before the cast)
PixelAlpha_Rounded(lum) ==
    LET c255 == FloatOfInt(White, LumScale)
    IN  IF BigCmp(lum, c255) = 1 THEN 0
        ELSE LET d == Round53(BigSub(c255, lum))
                 p == Round53(BigMul(d, OneEight))
                 r == BigAdd(p, BigShl(<<1>>, ProdScale - 1))
             IN  IF BigCmp(p, FloatOfInt(White, ProdScale)) = 1 THEN White
                 ELSE NatOfBig(BigShr(r, ProdScale))

\* variant: the alpha of line 21 taken from the luminance, not the darkness
PixelAlpha_Brightness(lum) ==
    LET p == Round53(BigMul(lum, OneEight))
    IN  IF BigCmp(p, FloatOfInt(White, ProdScale)) = 1 THEN White
        ELSE NatOfBig(BigShr(p, ProdScale))

\* line 21, one element: np.clip((255 - luminance) * 1.8, 0, 255).astype(np.uint8)
\* 255 - luminance is negative when luminance rounds above 255 and the clip
\* then yields 0;  astype(np.uint8) truncates toward zero.
PixelAlpha(lum) ==
    LET c255 == FloatOfInt(White, LumScale)
    IN  IF BigCmp(lum, c255) = 1 THEN 0
        ELSE LET d == Round53(BigSub(c255, lum))
                 p == Round53(BigMul(d, OneEight))
             IN  IF BigCmp(p, FloatOfInt(White, ProdScale)) = 1 THEN White
                 ELSE NatOfBig(BigShr(p, ProdScale))

(***************************************************************************)
(* Images and files.  An image is its size and a pixel per coordinate      *)
(* <<x, y>>; a file is what a path holds.                                  *)
(***************************************************************************)
Coords(wd, ht) == (0..(wd - 1)) \X (0..(ht - 1))

NoImage == [w |-> 0, h |-> 0, px |-> [p \in {} |-> 0]]
NoArray == [p \in {} |-> 0]

Absent == [kind |-> "absent", image |-> NoImage]
Stale == [kind |-> "stale", image |-> NoImage]
Corrupt == [kind |-> "corrupt", image |-> NoImage]
Png(image) == [kind |-> "png", image |-> image]

\* The colours the source images are drawn from: black, white, greys on and
\* around the threshold and the saturation point, and colours whose weighted
\* sum is 180 or 145 in real arithmetic but not in binary64.
Palette ==
    << <<0, 0, 0>>, <<255, 255, 255>>, <<180, 180, 180>>, <<179, 179, 179>>,
       <<60, 252, 124>>, <<123, 237, 36>>, <<145, 145, 145>>, <<10, 226, 82>>,
       <<113, 113, 113>>, <<114, 114, 114>>, <<177, 177, 177>>, <<200, 200, 200>> >>

AlphaValues == <<0, 128, 255>>

\* the sizes of the worked examples (4x4 and 10x4)
ExampleSizes == {<<4, 4>>, <<10, 4>>}

\* the steps between the colours of successive pixels
Strides == {0, 1, 5, 7, 11}

PatternColour(i, seed, stride) == Palette[((seed - 1 + i * stride) % Len(Palette)) + 1]
PatternAlpha(i, seed) == AlphaValues[((seed + i) % Len(AlphaValues)) + 1]

\* a decodable source file of the given native mode
SourceFile(wd, ht, seed, stride, mode) ==
    [kind |-> "image", mode |-> mode,
     image |-> [w |-> wd, h |-> ht,
                px |-> [p \in Coords(wd, ht) |->
                          LET i == p[2] * wd + p[1]
                              c == PatternColour(i, seed, stride)
                          IN  IF mode = "RGBA"
                              THEN <<c[1], c[2], c[3], PatternAlpha(i, seed)>>
                              ELSE c]]]

Undecodable == [kind |-> "undecodable", mode |-> "none", image |-> NoImage]

Sources ==
    {SourceFile(wd, ht, seed, stride, mode) :
        wd \in 1..MaxDim, ht \in 1..MaxDim, seed \in 1..Len(Palette),
        stride \in Strides, mode \in {"RGB", "RGBA"}}
    \cup {SourceFile(sz[1], sz[2], seed, stride, "RGB") :
        sz \in ExampleSizes, seed \in {1, 2}, stride \in {0, 1}}
    \cup {Undecodable}

\* line 6: img.convert("RGBA") - an opaque alpha is added to a 3-channel image
ConvertRGBA(file) ==
    [w |-> file.image.w, h |-> file.image.h,
     px |-> [p \in DOMAIN file.image.px |->
               LET c == file.image.px[p]
               IN  IF file.mode = "RGBA" THEN c ELSE <<c[1], c[2], c[3], White>>]]

\* lines 10 and 21 evaluated once for each colour of the palette
LuminanceCache ==
    [c \in {Palette[i] : i \in DOMAIN Palette} |-> PixelLuminance(c[1], c[2], c[3])]
AlphaCache ==
    [l \in {LuminanceCache[c] : c \in DOMAIN LuminanceCache} |-> PixelAlpha(l)]

LuminanceAt(r, g, b) ==
    IF <<r, g, b>> \in DOMAIN LuminanceCache
    THEN LuminanceCache[<<r, g, b>>]
    ELSE PixelLuminance(r, g, b)
AlphaAt(lum) ==
    IF lum \in DOMAIN AlphaCache THEN AlphaCache[lum] ELSE PixelAlpha(lum)

\* variant: the colour channels weighted by the source alpha before line 10
LuminanceMap_Premultiplied(image) ==
    [p \in DOMAIN image.px |->
       LET c == image.px[p]
       IN  LuminanceAt((c[1] * c[4]) \div White, (c[2] * c[4]) \div White,
                       (c[3] * c[4]) \div White)]

\* lines 9-10 over the whole array
LuminanceMap(image) ==
    [p \in DOMAIN image.px |-> LuminanceAt(image.px[p][1], image.px[p][2], image.px[p][3])]

\* line 13 over the whole array
LineMask(lumMap) == [p \in DOMAIN lumMap |-> IsLine(lumMap[p])]

\* variant: the array's (rows, columns) shape taken as (width, height)
NewData_Transposed(image, lumMap, mask) ==
    [w |-> image.h, h |-> image.w,
     px |-> [p \in DOMAIN image.px |->
               <<White, White, White, IF mask[p] THEN AlphaAt(lumMap[p]) ELSE 0>>]]

\* lines 15-25: white everywhere, alpha from line 21 with line 22's reset;
\* Image.fromarray gives an image of the array's width and height
NewData(image, lumMap, mask) ==
    [w |-> image.w, h |-> image.h,
     px |-> [p \in DOMAIN image.px |->
               <<White, White, White, IF mask[p] THEN AlphaAt(lumMap[p]) ELSE 0>>]]

Min(a, b) == IF a <= b THEN a ELSE b

\* variants: the longer side taken; the offset not halved
CropSide_Max(wd, ht) == IF wd >= ht THEN wd ELSE ht
CropOffset_Unhalved(dim, side) == dim - side

\* lines 30-32
CropSide(wd, ht) == Min(wd, ht)
CropOffset(dim, side) == (dim - side) \div 2

\* line 33: Image.crop(box); pixels of the box outside the image are zero
CropImage(image, box) ==
    [w |-> box[3] - box[1], h |-> box[4] - box[2],
     px |-> [p \in Coords(box[3] - box[1], box[4] - box[2]) |->
               LET q == <<box[1] + p[1], box[2] + p[2]>>
               IN  IF q \in DOMAIN image.px THEN image.px[q] ELSE <<0, 0, 0, 0>>]]

\* variant: the destination opened for appending
SavedFile_Append(image, old) == IF old.kind = "absent" THEN Png(image) ELSE Corrupt

\* what a path holds after Image.save succeeded on it
SavedFile(image, old) == Png(image)

\* what a path may hold after Image.save failed on it: the file could not be
\* opened, or it was opened (truncated) and the encoding was cut short
FailedSave(old) == {old, Corrupt}

(***************************************************************************)
(* State.                                                                  *)
(***************************************************************************)
VARIABLES
    pc,            \* position in the script
    run,           \* how many times the script was started
    src,           \* the file at the source path
    outFile,       \* the file at .../pythia-outline.png
    sqFile,        \* the file at .../pythia-outline-square.png
    img,           \* lines 5-7
    luminance,     \* line 10
    line_mask,     \* line 13
    result,        \* lines 15-25
    box,           \* lines 29-33: <<left, top, left + s, top + s>>
    square,        \* line 33
    printed,       \* lines 36-38: the three sizes
    hist           \* history of the runs: what this run wrote and where it
                   \* failed, the files at its start, the files the first
                   \* completed run left

vars == <<pc, run, src, outFile, sqFile, img, luminance, line_mask, result, box,
          square, printed, hist>>

NoBox == <<0, 0, 0, 0>>
NoSizes == <<>>

FreshHist(o, q, firstFiles) ==
    [wroteOutline |-> FALSE, wroteSquare |-> FALSE, failedAt |-> "none",
     priorOut |-> o, priorSq |-> q, first |-> firstFiles]

NoFirst == [run |-> 0, out |-> Absent, sq |-> Absent]

Init ==
    /\ pc = "start"
    /\ run = 1
    /\ src \in Sources
    /\ \E old \in {Absent, Stale} : outFile = old /\ sqFile = old
    /\ img = NoImage
    /\ luminance = NoArray
    /\ line_mask = NoArray
    /\ result = NoImage
    /\ box = NoBox
    /\ square = NoImage
    /\ printed = NoSizes
    /\ hist = FreshHist(outFile, sqFile, NoFirst)

\* lines 5-7 succeed
Load ==
    /\ pc = "start"
    /\ src.kind = "image"
    /\ img' = ConvertRGBA(src)
    /\ pc' = "loaded"
    /\ UNCHANGED <<run, src, outFile, sqFile, luminance, line_mask, result, box,
                   square, printed, hist>>

\* variant: the outline destination opened for writing before the source is read
LoadError_Truncates ==
    /\ pc = "start"
    /\ src.kind # "image"
    /\ pc' = "failed"
    /\ outFile' = Corrupt
    /\ hist' = [hist EXCEPT !.failedAt = "load"]
    /\ UNCHANGED <<run, src, sqFile, img, luminance, line_mask, result,
                   box, square, printed>>

\* line 5 raises: the source is missing or not an image
LoadError ==
    /\ pc = "start"
    /\ src.kind # "image"
    /\ pc' = "failed"
    /\ hist' = [hist EXCEPT !.failedAt = "load"]
    /\ UNCHANGED <<run, src, outFile, sqFile, img, luminance, line_mask, result,
                   box, square, printed>>

\* lines 9-13
ComputeLuminance ==
    /\ pc = "loaded"
    /\ luminance' = LuminanceMap(img)
    /\ line_mask' = LineMask(luminance')
    /\ pc' = "masked"
    /\ UNCHANGED <<run, src, outFile, sqFile, img, result, box, square, printed, hist>>

\* lines 15-25
BuildResult ==
    /\ pc = "masked"
    /\ result' = NewData(img, luminance, line_mask)
    /\ pc' = "built"
    /\ UNCHANGED <<run, src, outFile, sqFile, img, luminance, line_mask, box,
                   square, printed, hist>>

\* line 26 succeeds
SaveOutline ==
    /\ pc = "built"
    /\ outFile' = SavedFile(result, outFile)
    /\ hist' = [hist EXCEPT !.wroteOutline = TRUE]
    /\ pc' = "saved"
    /\ UNCHANGED <<run, src, sqFile, img, luminance, line_mask, result, box,
                   square, printed>>

\* line 26 raises
SaveOutlineError ==
    /\ pc = "built"
    /\ outFile' \in FailedSave(outFile)
    /\ hist' = [hist EXCEPT !.failedAt = "outline"]
    /\ pc' = "failed"
    /\ UNCHANGED <<run, src, sqFile, img, luminance, line_mask, result, box,
                   square, printed>>

\* lines 29-33
Crop ==
    /\ pc = "saved"
    /\ LET side == CropSide(result.w, result.h)
           left == CropOffset(result.w, side)
           top == CropOffset(result.h, side)
       IN  /\ box' = <<left, top, left + side, top + side>>
           /\ square' = CropImage(result, box')
    /\ pc' = "cropped"
    /\ UNCHANGED <<run, src, outFile, sqFile, img, luminance, line_mask, result,
                   printed, hist>>

\* line 34 succeeds
SaveSquare ==
    /\ pc = "cropped"
    /\ sqFile' = SavedFile(square, sqFile)
    /\ hist' = [hist EXCEPT !.wroteSquare = TRUE]
    /\ pc' = "squared"
    /\ UNCHANGED <<run, src, outFile, img, luminance, line_mask, result, box,
                   square, printed>>

\* line 34 raises
SaveSquareError ==
    /\ pc = "cropped"
    /\ sqFile' \in FailedSave(sqFile)
    /\ hist' = [hist EXCEPT !.failedAt = "square"]
    /\ pc' = "failed"
    /\ UNCHANGED <<run, src, outFile, img, luminance, line_mask, result, box,
                   square, printed>>

\* lines 36-39
Report ==
    /\ pc = "squared"
    /\ printed' = << <<img.w, img.h>>, <<result.w, result.h>>, <<square.w, square.h>> >>
    /\ hist' = IF hist.first.run = 0
               THEN [hist EXCEPT !.first = [run |-> run, out |-> outFile, sq |-> sqFile]]
               ELSE hist
    /\ pc' = "done"
    /\ UNCHANGED <<run, src, outFile, sqFile, img, luminance, line_mask, result,
                   box, square>>

\* the script is started again on the same source and destinations; a new
\* process has none of the previous one's variables
Rerun ==
    /\ pc \in {"done", "failed"}
    /\ run < MaxRuns
    /\ run' = run + 1
    /\ pc' = "start"
    /\ img' = NoImage
    /\ luminance' = NoArray
    /\ line_mask' = NoArray
    /\ result' = NoImage
    /\ box' = NoBox
    /\ square' = NoImage
    /\ printed' = NoSizes
    /\ hist' = FreshHist(outFile, sqFile, hist.first)
    /\ UNCHANGED <<src, outFile, sqFile>>

Next ==
    \/ Load
    \/ LoadError
    \/ ComputeLuminance
    \/ BuildResult
    \/ SaveOutline
    \/ SaveOutlineError
    \/ Crop
    \/ SaveSquare
    \/ SaveSquareError
    \/ Report
    \/ Rerun

Spec == Init /\ [][Next]_vars

(***************************************************************************)
(* Properties.  Real-valued quantities are kept as integers: the weighted  *)
(* sum of a pixel times 1000, and the scaled darkness times 10000.         *)
(***************************************************************************)
Built == result # NoImage
Cropped == square # NoImage

\* 1000 * (0.299 R + 0.587 G + 0.114 B) in real arithmetic
LumK(c) == 299 * c[1] + 587 * c[2] + 114 * c[3]
\* 10000 * (255 - L) * 1.8 in real arithmetic
DarkK(c) == (255000 - LumK(c)) * 18

OutAlpha(p) == result.px[p][4]
LumBelow(p, k) == BigCmp(luminance[p], FloatOfInt(k, LumScale)) = -1
LumAtMost(p, k) == BigCmp(luminance[p], FloatOfInt(k, LumScale)) # 1

\* C1 as claimed: a run that fails has written neither output file, and no run
\* ends with exactly one of the two output files written.
C1_NoPartialPersistence ==
    /\ pc = "failed" => ~hist.wroteOutline /\ ~hist.wroteSquare
    /\ pc \in {"failed", "done"} => (hist.wroteOutline <=> hist.wroteSquare)

\* C1 amended: each file is written from a fully computed image, the square
\* file only after the outline file; a run failing at the load leaves both
\* destinations as they were, a run failing at the outline write completes no
\* write and leaves the square destination as it was, a run failing at the
\* square write ends with the outline file (and only it) written, and a run
\* that completes has written both.
C1_WritesFollowComputation ==
    /\ hist.wroteOutline => Built /\ outFile = Png(result)
    /\ hist.wroteSquare => hist.wroteOutline /\ Cropped /\ sqFile = Png(square)
    /\ hist.failedAt = "load" => outFile = hist.priorOut /\ sqFile = hist.priorSq
    /\ hist.failedAt = "outline" =>
          ~hist.wroteOutline /\ ~hist.wroteSquare /\ sqFile = hist.priorSq
    /\ hist.failedAt = "square" => hist.wroteOutline /\ ~hist.wroteSquare
    /\ pc = "done" => hist.wroteOutline /\ hist.wroteSquare

C1_Witness ==
    /\ pc = "failed"
    /\ hist.failedAt = "square"
    /\ outFile = Png(result)
    /\ sqFile.kind # "png"

\* C2 as claimed: for every pixel with luminance below 180 the output alpha is
\* the scaled darkness (255 - L) * 1.8 rounded to the nearest integer, clamped
\* to 0..255.
C2_AlphaRounded ==
    Built => \A p \in DOMAIN result.px :
        LumBelow(p, Threshold) =>
            OutAlpha(p) = Min(White, (DarkK(img.px[p]) + 5000) \div 10000)

\* C2 amended: for every pixel with luminance below 180 the output alpha is the
\* scaled darkness truncated toward zero, clamped to 0..255: it is
\* clamp(floor((255 - L) * 1.8)), or one less where (255 - L) * 1.8 is an
\* integer in real arithmetic and its binary64 value falls just below it.
C2_AlphaTruncated ==
    Built => \A p \in DOMAIN result.px :
        LumBelow(p, Threshold) =>
            LET x == DarkK(img.px[p])
                fl == Min(White, x \div 10000)
            IN  \/ OutAlpha(p) = fl
                \/ x % 10000 = 0 /\ OutAlpha(p) = fl - 1

C2_Witness ==
    /\ Built
    /\ \E p \in DOMAIN result.px :
          img.px[p] = <<179, 179, 179, White>> /\ OutAlpha(p) = 136
    /\ \E p \in DOMAIN result.px :
          img.px[p] = <<10, 226, 82, White>> /\ OutAlpha(p) = 197

\* C3: every pixel whose luminance is 180 or more (180 itself included) is
\* white with alpha 0 in the output; so is every pixel whose weighted sum
\* exceeds 180 in real arithmetic, and every pixel of an all-white source.
C3_BackgroundTransparent ==
    Built => \A p \in DOMAIN result.px :
        (~LumBelow(p, Threshold) \/ LumK(img.px[p]) > 1000 * Threshold)
            => result.px[p] = <<White, White, White, 0>>

C3_Witness ==
    /\ Built
    /\ \E p \in DOMAIN result.px :
          /\ luminance[p] = FloatOfInt(Threshold, LumScale)
          /\ result.px[p] = <<White, White, White, 0>>
    /\ \E p \in DOMAIN result.px :
          img.px[p] = <<White, White, White, White>> /\ OutAlpha(p) = 0

\* C4: the square crop is s by s for s the smaller of the output's width and
\* height, at offsets floor((w - s) / 2) and floor((h - s) / 2); a 10x4 output
\* gives a 4x4 crop at left 3, top 0.
C4_SquareCropGeometry ==
    Cropped =>
        LET wd == result.w
            ht == result.h
            side == box[3] - box[1]
        IN  /\ side <= wd /\ side <= ht /\ (side = wd \/ side = ht)
            /\ box[4] - box[2] = side
            /\ square.w = side /\ square.h = side
            /\ DOMAIN square.px = Coords(side, side)
            /\ 2 * box[1] <= wd - side /\ wd - side <= 2 * box[1] + 1
            /\ 2 * box[2] <= ht - side /\ ht - side <= 2 * box[2] + 1
            /\ (wd = 10 /\ ht = 4 => side = 4 /\ box[1] = 3 /\ box[2] = 0)
            /\ (pc = "done" => printed[3] = <<side, side>>)

C4_Witness ==
    /\ pc = "done"
    /\ result.w = 10 /\ result.h = 4
    /\ box = <<3, 0, 7, 4>>
    /\ square.w = 4 /\ square.h = 4

\* C5: the crop box lies inside the output image, the margins before and
\* after it differ by at most 1 on each axis, and crop pixel (x, y) is output
\* pixel (left + x, top + y).
C5_CropCentredInside ==
    Cropped =>
        /\ 0 <= box[1] /\ 0 <= box[2]
        /\ box[3] <= result.w /\ box[4] <= result.h
        /\ box[1] - (result.w - box[3]) \in {-1, 0, 1}
        /\ box[2] - (result.h - box[4]) \in {-1, 0, 1}
        /\ \A p \in DOMAIN square.px :
              /\ <<box[1] + p[1], box[2] + p[2]>> \in DOMAIN result.px
              /\ square.px[p] = result.px[<<box[1] + p[1], box[2] + p[2]>>]

C5_Witness ==
    /\ Cropped
    /\ box[1] > 0
    /\ result.w - box[3] = box[1]
    /\ \E p \in DOMAIN square.px : square.px[p] # result.px[p]

\* C6: the output image has the width and height of the source, and exactly
\* one RGBA pixel for each source pixel, at the same coordinates.
C6_SameDimensions ==
    Built =>
        /\ result.w = src.image.w /\ result.h = src.image.h
        /\ result.w >= 1 /\ result.h >= 1
        /\ DOMAIN result.px = DOMAIN src.image.px
        /\ DOMAIN result.px = Coords(src.image.w, src.image.h)
        /\ \A p \in DOMAIN result.px :
              /\ Len(result.px[p]) = 4
              /\ \A i \in 1..4 : result.px[p][i] \in 0..White
        /\ (pc = "done" => printed[1] = printed[2]
                           /\ printed[2] = <<src.image.w, src.image.h>>)

C6_Witness ==
    /\ Built
    /\ src.image.w = 1 /\ src.image.h = 1
    /\ DOMAIN result.px = {<<0, 0>>}

\* C7: among line pixels alpha does not increase with luminance (L1 <= L2 <
\* 180 gives alpha(L1) >= alpha(L2)), and alpha is 0 for each unmasked pixel.
C7_AlphaMonotone ==
    Built =>
        /\ \A p, q \in DOMAIN result.px :
              (BigCmp(luminance[p], luminance[q]) # 1 /\ LumBelow(q, Threshold))
                  => OutAlpha(p) >= OutAlpha(q)
        /\ \A p \in DOMAIN result.px : ~line_mask[p] => OutAlpha(p) = 0

C7_Witness ==
    /\ Built
    /\ \E p, q \in DOMAIN result.px :
          /\ BigCmp(luminance[p], luminance[q]) = -1
          /\ LumBelow(q, Threshold)
          /\ OutAlpha(p) > OutAlpha(q)
    /\ \E p \in DOMAIN result.px : ~line_mask[p] /\ OutAlpha(p) = 0

\* C8: a completed run on the same source and destinations leaves both files
\* exactly as the first completed run left them, whatever the destinations
\* held before and whatever earlier runs did.
C8_Idempotent ==
    (pc = "done" /\ hist.first.run # 0) =>
        /\ outFile = hist.first.out
        /\ sqFile = hist.first.sq
        /\ outFile.kind = "png" /\ sqFile.kind = "png"

C8_Witness ==
    /\ pc = "done"
    /\ run = 2
    /\ hist.first.run = 1
    /\ hist.priorOut = hist.first.out
    /\ outFile = hist.first.out /\ sqFile = hist.first.sq

\* C9: every output alpha is 0 or lies in 135..255 (a line pixel's is at
\* least 135), and every pixel with luminance at most 113 has alpha 255.
C9_AlphaGap ==
    Built => \A p \in DOMAIN result.px :
        /\ OutAlpha(p) = 0 \/ OutAlpha(p) \in 135..White
        /\ line_mask[p] => OutAlpha(p) >= 135
        /\ LumAtMost(p, 113) => OutAlpha(p) = White

C9_Witness ==
    /\ Built
    /\ \E p \in DOMAIN result.px : OutAlpha(p) = 135
    /\ \E p \in DOMAIN result.px :
          luminance[p] = FloatOfInt(113, LumScale) /\ OutAlpha(p) = White

\* the image with the same colours and another alpha plane
AlphaTwin(image, k) ==
    [w |-> image.w, h |-> image.h,
     px |-> [p \in DOMAIN image.px |->
               <<image.px[p][1], image.px[p][2], image.px[p][3],
                 AlphaValues[((k + p[1] + 2 * p[2]) % Len(AlphaValues)) + 1]>>]]

TwinResult(image, k) ==
    LET t == AlphaTwin(image, k)
        lm == LuminanceMap(t)
    IN  NewData(t, lm, LineMask(lm))

TwinSquare(image, k) ==
    LET r == TwinResult(image, k)
        side == CropSide(r.w, r.h)
        left == CropOffset(r.w, side)
        top == CropOffset(r.h, side)
    IN  CropImage(r, <<left, top, left + side, top + side>>)

\* C10: a source with the same R, G, B at every pixel and any other alpha
\* gives the same output image and the same square crop; a fully transparent
\* black source pixel becomes an opaque white pixel.
C10_SourceAlphaIgnored ==
    /\ pc = "built" =>
          \A k \in 1..Len(AlphaValues) : TwinResult(img, k) = result
    /\ pc = "cropped" =>
          \A k \in 1..Len(AlphaValues) : TwinSquare(img, k) = square
    /\ Built => \A p \in DOMAIN result.px :
          img.px[p] = <<0, 0, 0, 0>> => result.px[p] = <<White, White, White, White>>

C10_Witness ==
    /\ pc = "cropped"
    /\ \E p \in DOMAIN result.px :
          img.px[p] = <<0, 0, 0, 0>> /\ result.px[p] = <<White, White, White, White>>
    /\ \E k \in 1..Len(AlphaValues) : AlphaTwin(img, k) # img

====
